---- MODULE Spec2Model ----
(***************************************************************************)
(* The version manager of duckdb-version-manager (package manager):       *)
(* the in-memory inventory v.localConfig, the inventory file config.File, *)
(* the binaries under config.VersionDir and the default-pointer artifact  *)
(* config.DefaultDuckdbFile, and the operations of versionManagerImpl.    *)
(*                                                                         *)
(* Every operation is one action.  Inside an action the handler is an     *)
(* operator over a "world" record w that threads the state through the    *)
(* handler's steps in program order:                                      *)
(*   w.cfg   v.localConfig          w.file  bytes of config.File          *)
(*   w.dir   files in VersionDir    w.link  config.DefaultDuckdbFile      *)
(*   w.trace the steps executed so far, in order                          *)
(*   w.err   the stacktrace.Error returned (NoError = nil)                *)
(*   w.n     number of fallible external calls made so far                *)
(*   w.failAt, w.partial  the environment's choice: which fallible call   *)
(*           fails (0 = none) and whether a failing write leaves a        *)
(*           truncated file behind                                        *)
(***************************************************************************)
EXTENDS Integers, Sequences, FiniteSets, TLC

VARIABLES
    localConfig,  \* v.localConfig when the last invocation ended
    configFile,   \* contents of config.File, a sequence of tokens
    versionDir,   \* paths of the binaries that exist under config.VersionDir
    defaultFile,  \* config.DefaultDuckdbFile: NoFile, or the location it points at
    now,          \* wall clock, in hours
    catalog,      \* release keys the remote catalog serves
    last,         \* what the last operation was and did (history)
    inv           \* concurrent invocations (SpecConc only)

vars == <<localConfig, configFile, versionDir, defaultFile, now, catalog, last, inv>>

(***************************************************************************)
(* Bounds of the model.                                                    *)
(***************************************************************************)
MaxHalfDays == 3   \* the clock advances at most this many half days

(***************************************************************************)
(* Values.                                                                 *)
(***************************************************************************)
NoVersion == "<nil>"      \* nil *string / nil *LocalInstallationInfo
NoFile == "<absent>"      \* the path does not exist
NoError == "<nil error>"  \* nil stacktrace.Error
NotFound == "<not found>"

FreshnessWindow == 24     \* 24*time.Hour, in hours
HalfDay == FreshnessWindow \div 2   \* hours per clock step of the model

VersionDir == "versions"
DuckDBName == "duckdb"

\* "v" + version
Prefixed(version) == "v" \o version

\* Releases of the remote catalog by bare identifier; "nightly" is the rolling build.
NumberedReleases == {"0.9.2"}
RollingRelease == "nightly"

\* The catalog serves each numbered release under its bare or its tag-prefixed key.
Catalogs ==
    { {RollingRelease} \cup { IF r \in pre THEN Prefixed(r) ELSE r : r \in NumberedReleases }
        : pre \in SUBSET NumberedReleases }

\* Version strings a user may type.
UserVersions == NumberedReleases \cup { Prefixed(r) : r \in NumberedReleases }
                    \cup {RollingRelease}

ArgLists == { <<>>, <<"-c", "select 1">> }

\* models.LocalInstallationInfo zero value
ZeroInfo == [Version |-> "", Location |-> "", InstallationDate |-> <<>>]

\* a nil *models.LocalInstallationInfo
NilInfo == [Version |-> NoVersion, Location |-> NoFile, InstallationDate |-> <<>>]

\* time.Time.MarshalText: the RFC 3339 text of an instant
MarshalText(t) == <<"RFC3339", t>>

\* time.Parse(time.RFC3339, s): the instant, or the zero time with an error
ParseTime(s) ==
    IF Len(s) = 2 /\ s[1] = "RFC3339" THEN [ok |-> TRUE, t |-> s[2]]
    ELSE [ok |-> FALSE, t |-> 0]

\* m[k] of a Go map: the zero value when k is absent
MapGet(m, k) == IF k \in DOMAIN m THEN m[k] ELSE ZeroInfo

\* m[k] = e
MapPut(m, k, e) == [x \in (DOMAIN m) \cup {k} |-> IF x = k THEN e ELSE m[x]]

\* delete(m, k)
MapDelete(m, k) == [x \in (DOMAIN m) \ {k} |-> m[x]]

EmptyConfig == [LocalInstallations |-> <<>>, DefaultVersion |-> NoVersion]

(***************************************************************************)
(* Serialization of the inventory.  The file is a sequence of tokens: one *)
(* per entry of LocalInstallations, in the sorted key order encoding/json *)
(* writes a map in, then one for DefaultVersion, which closes the object. *)
(***************************************************************************)
\* Byte order of the keys.
KeyOrder == <<"0.10.0", "0.9.2", "nightly", "v0.10.0", "v0.9.2">>

EntryToken(k, e) == [kind |-> "entry", key |-> k, value |-> e]
DefaultToken(d) == [kind |-> "default", key |-> d, value |-> ZeroInfo]

\* json.MarshalIndent(v.localConfig, "", "  ")
MarshalIndent(cfg) ==
    LET has(k) == k \in DOMAIN cfg.LocalInstallations
        ks == SelectSeq(KeyOrder, has)
    IN  [i \in 1..Len(ks) |-> EntryToken(ks[i], cfg.LocalInstallations[ks[i]])]
            \o <<DefaultToken(cfg.DefaultVersion)>>

\* The file parses as one inventory: entries, then the closing default token,
\* and nothing after it.
WellFormed(bytes) ==
    /\ Len(bytes) >= 1
    /\ bytes[Len(bytes)].kind = "default"
    /\ \A i \in 1..(Len(bytes) - 1) : bytes[i].kind = "entry"

\* json.Unmarshal of a well-formed file
Unmarshal(bytes) ==
    LET n == Len(bytes) - 1
        keys == { bytes[i].key : i \in 1..n }
        lastOf(k) == CHOOSE i \in 1..n :
                        /\ bytes[i].key = k
                        /\ \A j \in 1..n : bytes[j].key = k => j <= i
    IN  [LocalInstallations |-> [k \in keys |-> bytes[lastOf(k)].value],
         DefaultVersion |-> bytes[Len(bytes)].key]

\* open(2) with O_TRUNC: os.WriteFile's first system call
Truncate(bytes) == <<>>

\* write(2) of data at offset 0 of a fresh descriptor: os.WriteFile's second call
WriteAt0(bytes, data) == data \o SubSeq(bytes, Len(data) + 1, Len(bytes))

(***************************************************************************)
(* Threading the world through a handler.                                  *)
(***************************************************************************)
\* The next fallible call is the one the environment makes fail.
FailsNext(w) == w.n + 1 = w.failAt

\* A fallible call was made.
Called(w, step) == [w EXCEPT !.trace = Append(@, step), !.n = @ + 1]

\* A step that cannot fail was executed.
Did(w, step) == [w EXCEPT !.trace = Append(@, step)]

\* return err
Raise(w, e) == [w EXCEPT !.err = e]

(***************************************************************************)
(* Lookup.                                                                 *)
(***************************************************************************)
\* Faulty variant: the lookup without the retry under the prefixed key.
VersionIsInstalledExact(cfg, version) == version \in DOMAIN cfg.LocalInstallations

VersionIsInstalled(cfg, version) ==
    IF version \notin DOMAIN cfg.LocalInstallations
    THEN Prefixed(version) \in DOMAIN cfg.LocalInstallations
    ELSE TRUE

\* Faulty variant: the prefixed key is looked up first.
GetLocalReleaseInfoPrefixedFirst(cfg, version) ==
    IF Prefixed(version) \in DOMAIN cfg.LocalInstallations
    THEN cfg.LocalInstallations[Prefixed(version)]
    ELSE IF version \in DOMAIN cfg.LocalInstallations
         THEN cfg.LocalInstallations[version]
         ELSE NilInfo

\* The entry, or NilInfo for (nil, error)
GetLocalReleaseInfo(cfg, version) ==
    IF version \in DOMAIN cfg.LocalInstallations
    THEN cfg.LocalInstallations[version]
    ELSE IF Prefixed(version) \in DOMAIN cfg.LocalInstallations
         THEN cfg.LocalInstallations[Prefixed(version)]
         ELSE NilInfo

\* nil, or the entry stored under DefaultVersion (the zero value if there is none)
GetDefaultVersion(cfg) ==
    IF cfg.DefaultVersion = NoVersion THEN NilInfo
    ELSE MapGet(cfg.LocalInstallations, cfg.DefaultVersion)

\* client.GetRelease: the release stored under the identifier or under the
\* tag-prefixed identifier, else an error
GetRelease(cat, version) ==
    IF version \in cat THEN version
    ELSE IF Prefixed(version) \in cat THEN Prefixed(version)
    ELSE NotFound

(***************************************************************************)
(* saveConfig and InstallVersion.                                          *)
(***************************************************************************)
\* Faulty variant: the inventory is marshalled and the file is left as it was.
saveConfigNotWritten(w) == Called(w, "saveConfig")

saveConfig(w) ==
    LET configAsBytes == MarshalIndent(w.cfg)
        w1 == Called(w, "saveConfig")
    IN  IF FailsNext(w)
        THEN Raise([w1 EXCEPT !.file = IF w.partial THEN Truncate(@) ELSE @], "IOError")
        ELSE [w1 EXCEPT !.file = WriteAt0(Truncate(@), configAsBytes)]

\* Faulty variant: the file name does not carry the version.
FileLocationUnversioned(releaseVersion) == VersionDir \o "/" \o DuckDBName

\* config.VersionDir + "/" + config.DuckDBName + "-" + release.Version
FileLocation(releaseVersion) == VersionDir \o "/" \o DuckDBName \o "-" \o releaseVersion

\* Faulty variant: the installed version also becomes the default.
RecordInstallationAsDefault(cfg, releaseVersion, t) ==
    [cfg EXCEPT !.LocalInstallations =
                    MapPut(@, releaseVersion,
                           [Version |-> releaseVersion,
                            Location |-> FileLocation(releaseVersion),
                            InstallationDate |-> MarshalText(t)]),
                !.DefaultVersion = releaseVersion]

\* Faulty variant: an entry that exists is kept as it is.
RecordInstallationIfAbsent(cfg, releaseVersion, t) ==
    IF releaseVersion \in DOMAIN cfg.LocalInstallations THEN cfg
    ELSE [cfg EXCEPT !.LocalInstallations =
            MapPut(@, releaseVersion,
                   [Version |-> releaseVersion,
                    Location |-> FileLocation(releaseVersion),
                    InstallationDate |-> MarshalText(t)])]

\* v.localConfig.LocalInstallations[release.Version] = models.LocalInstallationInfo{...}
RecordInstallation(cfg, releaseVersion, t) ==
    [cfg EXCEPT !.LocalInstallations =
        MapPut(@, releaseVersion,
               [Version |-> releaseVersion,
                Location |-> FileLocation(releaseVersion),
                InstallationDate |-> MarshalText(t)])]

\* Faulty variant: the entry is recorded before the asset is fetched.
InstallVersionRecordFirst(w, version) ==
    LET release == GetRelease(catalog, version)
        fileLocation == FileLocation(release)
        w0 == Did(w, "InstallVersion")
        w1 == Called(w0, "GetRelease")
        w2 == Called([w1 EXCEPT !.cfg = RecordInstallation(@, release, now)],
                     "GetDownloadUrlFrom")
        w3 == Called(w2, "GetResponseBodyFrom")
        w4 == Called(w3, "ExtractDuckdbFile")
        w5 == Called(w4, "WriteFile")
        w6 == Did([w5 EXCEPT !.dir = @ \cup {fileLocation}], "record")
    IN  IF FailsNext(w0) \/ release = NotFound THEN Raise(w1, "NotFoundRemote")
        ELSE IF FailsNext(w1) THEN Raise(w2, "UnsupportedPlatform")
        ELSE IF FailsNext(w2) THEN Raise(w3, "DownloadError")
        ELSE IF FailsNext(w3) THEN Raise(w4, "ExtractError")
        ELSE IF FailsNext(w4) THEN Raise(w5, "IOError")
        ELSE saveConfig(w6)

InstallVersion(w, version) ==
    LET release == GetRelease(catalog, version)
        fileLocation == FileLocation(release)
        w0 == Did(w, "InstallVersion")
        w1 == Called(w0, "GetRelease")
        w2 == Called(w1, "GetDownloadUrlFrom")
        w3 == Called(w2, "GetResponseBodyFrom")
        w4 == Called(w3, "ExtractDuckdbFile")
        w5 == Called(w4, "WriteFile")
        w6 == Did([w5 EXCEPT !.dir = @ \cup {fileLocation},
                             !.cfg = RecordInstallation(@, release, now)], "record")
    IN  IF FailsNext(w0) \/ release = NotFound THEN Raise(w1, "NotFoundRemote")
        ELSE IF FailsNext(w1) THEN Raise(w2, "UnsupportedPlatform")
        ELSE IF FailsNext(w2) THEN Raise(w3, "DownloadError")
        ELSE IF FailsNext(w3) THEN Raise(w4, "ExtractError")
        ELSE IF FailsNext(w4)
             THEN Raise([w5 EXCEPT !.dir = IF w.partial THEN @ \cup {fileLocation} ELSE @],
                        "IOError")
        ELSE saveConfig(w6)

(***************************************************************************)
(* SetDefaultVersion, UninstallVersion.                                    *)
(***************************************************************************)
\* utils.CopyFile(from, to) on windows, os.Symlink(from, to) elsewhere: either
\* makes the artifact at `to` stand for `from`, or fails; it cannot be made
\* over an existing path.
symlink(w, from) ==
    LET w1 == Called(w, "symlink")
    IN  IF FailsNext(w) \/ w.link # NoFile THEN Raise(w1, "IOError")
        ELSE [w1 EXCEPT !.link = from]

\* Faulty variant: the artifact is removed without looking whether it exists.
RemoveDefaultFileStrict(w) ==
    LET w1 == Called(w, "Remove(DefaultDuckdbFile)")
    IN  IF FailsNext(w) \/ w.link = NoFile THEN Raise(w1, "IOError")
        ELSE [w1 EXCEPT !.link = NoFile]

\* os.Lstat(config.DefaultDuckdbFile) succeeds: os.Remove it
RemoveDefaultFile(w) ==
    IF w.link = NoFile THEN w
    ELSE LET w1 == Called(w, "Remove(DefaultDuckdbFile)")
         IN  IF FailsNext(w) THEN Raise(w1, "IOError")
             ELSE [w1 EXCEPT !.link = NoFile]

\* v.localConfig.DefaultVersion = nil; return v.saveConfig()
ClearDefault(w) ==
    saveConfig(Did([w EXCEPT !.cfg.DefaultVersion = NoVersion], "clearDefault"))

\* if !v.VersionIsInstalled(*version) { v.InstallVersion(*version) }
InstallIfMissing(w, version) ==
    IF VersionIsInstalled(w.cfg, version) THEN w ELSE InstallVersion(w, version)

\* Faulty variant: the default recorded as the string the user typed.
RecordDefaultAsTyped(cfg, version, versionToInstall) ==
    [cfg EXCEPT !.DefaultVersion = version]

\* v.localConfig.DefaultVersion = &versionToInstall.Version
RecordDefault(cfg, version, versionToInstall) ==
    [cfg EXCEPT !.DefaultVersion = versionToInstall.Version]

\* The link to the resolved entry, then the default recorded and saved.
PointDefaultAt(w, version) ==
    LET versionToInstall == GetLocalReleaseInfo(w.cfg, version)
        w1 == symlink(w, versionToInstall.Location)
    IN  IF versionToInstall = NilInfo THEN Raise(w, "panic")
        ELSE IF w1.err # NoError THEN w1
        ELSE saveConfig(Did([w1 EXCEPT !.cfg = RecordDefault(@, version, versionToInstall)],
                            "setDefault"))

SetDefaultVersion(w, version) ==
    LET w1 == RemoveDefaultFile(Did(w, "SetDefaultVersion"))
        w2 == InstallIfMissing(w1, version)
    IN  IF w1.err # NoError THEN w1
        ELSE IF version = NoVersion THEN ClearDefault(w1)
        ELSE IF w2.err # NoError THEN w2
        ELSE PointDefaultAt(w2, version)

\* Faulty variant: a missing file is an error like any other.
RemoveBinaryStrict(w, location) ==
    LET w1 == Called(w, "Remove(binary)")
    IN  IF FailsNext(w) \/ location \notin w.dir THEN Raise(w1, "IOError")
        ELSE [w1 EXCEPT !.dir = @ \ {location}]

\* os.Remove of the binary; a missing file is tolerated (os.IsNotExist)
RemoveBinary(w, location) ==
    LET w1 == Called(w, "Remove(binary)")
    IN  IF location \notin w.dir THEN Did(w, "Remove(binary)")
        ELSE IF FailsNext(w) THEN Raise(w1, "IOError")
        ELSE [w1 EXCEPT !.dir = @ \ {location}]

\* Faulty variant: the default is cleared whatever it is.
ClearDefaultAlways(w, release) == SetDefaultVersion(w, NoVersion)

\* Faulty variant: the default is not cleared.
ClearIfDefaultSkipped(w, release) == w

\* if the version is the default version: v.SetDefaultVersion(nil)
ClearIfDefault(w, release) ==
    IF w.cfg.DefaultVersion # NoVersion /\ w.cfg.DefaultVersion = release.Version
    THEN SetDefaultVersion(w, NoVersion)
    ELSE w

\* The binary removed, the entry deleted, the inventory saved.
RemoveAndForget(w, release) ==
    LET w1 == RemoveBinary(w, MapGet(w.cfg.LocalInstallations, release.Version).Location)
    IN  IF w1.err # NoError THEN w1
        ELSE saveConfig(Did([w1 EXCEPT !.cfg.LocalInstallations =
                                          MapDelete(@, release.Version)], "delete"))

\* The version resolves to the entry release.
UninstallInstalled(w, release) ==
    LET w1 == ClearIfDefault(w, release)
    IN  IF w1.err # NoError THEN w1 ELSE RemoveAndForget(w1, release)

\* Faulty variant: no check that the version is installed.
UninstallVersionUnchecked(w, unreliableVersion) ==
    UninstallInstalled(Did(w, "UninstallVersion"), GetLocalReleaseInfo(w.cfg, unreliableVersion))

UninstallVersion(w, unreliableVersion) ==
    LET w0 == Did(w, "UninstallVersion")
    IN  IF ~VersionIsInstalled(w.cfg, unreliableVersion) THEN Raise(w0, "NotInstalled")
        ELSE UninstallInstalled(w0, GetLocalReleaseInfo(w.cfg, unreliableVersion))

(***************************************************************************)
(* Run.                                                                    *)
(***************************************************************************)
\* utils.Prepend(args, release.Location)
Prepend(args, x) == <<x>> \o args

\* exec: syscall.Exec on unix, os.StartProcess and Wait on windows
exec(w, args) ==
    LET w1 == Called(w, "exec")
    IN  IF FailsNext(w) \/ args[1] \notin w.dir THEN Raise(w1, "IOError")
        ELSE [w1 EXCEPT !.launched = args]

\* Faulty variant: a build exactly one day old counts as stale.
IsOlderThanOneDayInclusive(installationDate) ==
    LET installationTime == ParseTime(installationDate)
    IN  ~installationTime.ok \/ now - installationTime.t >= FreshnessWindow

\* time.Now().Sub(installationTime) > 24*time.Hour, installationTime being the
\* parsed InstallationDate (the zero time when it does not parse)
IsOlderThanOneDay(installationDate) ==
    LET installationTime == ParseTime(installationDate)
    IN  ~installationTime.ok \/ now - installationTime.t > FreshnessWindow

\* Faulty variant: the error of the re-install is dropped.
RefreshIfStaleIgnoringError(w, version, release) ==
    IF release.Version = "nightly" /\ IsOlderThanOneDay(release.InstallationDate)
    THEN [InstallVersion(w, version) EXCEPT !.err = NoError]
    ELSE w

\* if release.Version == "nightly" && isOlderThanOneDay { v.InstallVersion(version) }
RefreshIfStale(w, version, release) ==
    IF release.Version = "nightly" /\ IsOlderThanOneDay(release.InstallationDate)
    THEN InstallVersion(w, version)
    ELSE w

Run(w, version, args) ==
    LET w1 == InstallIfMissing(Did(w, "Run"), version)
        release == GetLocalReleaseInfo(w1.cfg, version)
        w2 == RefreshIfStale(w1, version, release)
    IN  IF w1.err # NoError THEN w1
        ELSE IF release = NilInfo THEN Raise(w1, "panic")
        ELSE IF w2.err # NoError THEN w2
        ELSE exec(w2, Prepend(args, release.Location))

(***************************************************************************)
(* Version numbers (github.com/hashicorp/go-version) and the self-update   *)
(* advisory.                                                               *)
(***************************************************************************)
ParseError == <<>>

\* version.NewVersion: the numeric segments, or an error
NewVersion(s) ==
    CASE s \in {"0.2.0", "v0.2.0"} -> <<0, 2, 0>>
      [] s \in {"0.9.2", "v0.9.2"} -> <<0, 9, 2>>
      [] s \in {"0.10.0", "v0.10.0"} -> <<0, 10, 0>>
      [] s \in {"1.0.0", "v1.0.0"} -> <<1, 0, 0>>
      [] s \in {"1.1.0", "v1.1.0"} -> <<1, 1, 0>>
      [] OTHER -> ParseError

\* Version.GreaterThan: segment-wise numeric comparison
GreaterThan(a, b) ==
    \E i \in 1..3 : a[i] > b[i] /\ \A j \in 1..(i - 1) : a[j] = b[j]

\* config.Version, set at build time to the release tag
ConfigVersion == "v1.0.0"

\* What client.LatestDuckVmRelease may return
ClientError == "<client error>"
LatestReleaseResults == {ClientError, "v1.0.0", "v1.1.0", "latest"}

\* "silent", "advisory" (the line is printed) or "panic" (version.Must)
ShowUpdateWarning(latestRelease) ==
    LET remoteVersion == NewVersion(latestRelease)
        localVersion == NewVersion(ConfigVersion)
    IN  IF latestRelease = ClientError THEN "silent"
        ELSE IF remoteVersion = ParseError THEN "panic"
        ELSE IF localVersion = ParseError THEN "panic"
        ELSE IF GreaterThan(remoteVersion, localVersion) THEN "advisory"
        ELSE "silent"

(***************************************************************************)
(* The state machine.  Every command is one invocation of the program: it  *)
(* loads the inventory file, runs one handler and ends.                    *)
(***************************************************************************)
\* The world a handler starts in: the manager holds the inventory just loaded.
World(failAt, partial) ==
    [cfg |-> Unmarshal(configFile), file |-> configFile, dir |-> versionDir,
     link |-> defaultFile, trace |-> <<>>, err |-> NoError, n |-> 0,
     failAt |-> failAt, partial |-> partial, launched |-> <<>>]

\* The choices of the failing call: none (0), or one of the calls the handler makes.
\* w is the world the handler ends in when no call is made to fail.
FailChoices(w) == 0..w.n

\* Whether the failing write left a truncated file matters when a write failed.
\* w is the world the handler ends in when the failing write left nothing.
PartialChoices(w) ==
    IF w.err # NoError /\ w.trace[Len(w.trace)] \in {"WriteFile", "saveConfig"}
    THEN BOOLEAN ELSE {FALSE}

\* found is the entry the version resolved to when the command started (NilInfo when
\* it did not resolve), onDisk whether that entry's binary existed then.
History(op, version, args, w, latest, advisory) ==
    LET found == IF version = NoVersion THEN NilInfo
                 ELSE GetLocalReleaseInfo(Unmarshal(configFile), version)
    IN  [op |-> op, version |-> version, args |-> args, err |-> w.err, trace |-> w.trace,
         launched |-> w.launched, latest |-> latest, advisory |-> advisory,
         found |-> found, onDisk |-> found.Location \in versionDir]

\* A step that is no command.
NoCommand(op) ==
    [op |-> op, version |-> NoVersion, args |-> <<>>, err |-> NoError, trace |-> <<>>,
     launched |-> <<>>, latest |-> ClientError, advisory |-> "none",
     found |-> NilInfo, onDisk |-> FALSE]

\* The handler returned: its world becomes the state.
Finish(w) ==
    /\ localConfig' = w.cfg
    /\ configFile' = w.file
    /\ versionDir' = w.dir
    /\ defaultFile' = w.link
    /\ UNCHANGED <<now, catalog, inv>>

\* Nothing is installed yet; the catalog is cat.
InitWith(cat) ==
    /\ localConfig = EmptyConfig
    /\ configFile = MarshalIndent(EmptyConfig)
    /\ versionDir = {}
    /\ defaultFile = NoFile
    /\ now = 0
    /\ catalog = cat
    /\ last = NoCommand("init")
    /\ inv = <<>>

Init == \E cat \in Catalogs : InitWith(cat)

\* installCmd.Run: InstallVersion, utils.ExitWithError on an error, else
\* ShowUpdateWarning.
Install(version) ==
    /\ WellFormed(configFile)
    /\ \E f \in FailChoices(InstallVersion(World(0, FALSE), version)) :
       \E p \in PartialChoices(InstallVersion(World(f, FALSE), version)) :
        LET w == InstallVersion(World(f, p), version)
        IN  /\ Finish(w)
            /\ \E r \in IF w.err = NoError THEN LatestReleaseResults ELSE {ClientError} :
                 last' = History("InstallVersion", version, <<>>, w, r,
                                 IF w.err = NoError THEN ShowUpdateWarning(r) ELSE "none")

Uninstall(version) ==
    /\ WellFormed(configFile)
    /\ \E f \in FailChoices(UninstallVersion(World(0, FALSE), version)) :
       \E p \in PartialChoices(UninstallVersion(World(f, FALSE), version)) :
        LET w == UninstallVersion(World(f, p), version)
        IN  /\ Finish(w)
            /\ last' = History("UninstallVersion", version, <<>>, w, ClientError, "none")

SetDefault(version) ==
    /\ WellFormed(configFile)
    /\ \E f \in FailChoices(SetDefaultVersion(World(0, FALSE), version)) :
       \E p \in PartialChoices(SetDefaultVersion(World(f, FALSE), version)) :
        LET w == SetDefaultVersion(World(f, p), version)
        IN  /\ Finish(w)
            /\ last' = History("SetDefaultVersion", version, <<>>, w, ClientError, "none")

RunVersion(version, args) ==
    /\ WellFormed(configFile)
    /\ \E f \in FailChoices(Run(World(0, FALSE), version, args)) :
       \E p \in PartialChoices(Run(World(f, FALSE), version, args)) :
        LET w == Run(World(f, p), version, args)
        IN  /\ Finish(w)
            /\ last' = History("Run", version, args, w, ClientError, "none")

AdvanceClock ==
    /\ now + HalfDay <= MaxHalfDays * HalfDay
    /\ now' = now + HalfDay
    /\ last' = NoCommand("clock")
    /\ UNCHANGED <<localConfig, configFile, versionDir, defaultFile, catalog, inv>>

Next ==
    \/ \E v \in UserVersions : Install(v)
    \/ \E v \in UserVersions : Uninstall(v)
    \/ \E v \in UserVersions \cup {NoVersion} : SetDefault(v)
    \/ \E v \in UserVersions, a \in ArgLists : RunVersion(v, a)

\* Every command on every version string, at one instant.
Spec == Init /\ [][Next]_vars

\* Commands on the rolling build while the clock advances.
InitClock == InitWith({RollingRelease})

NextClock ==
    \/ Install(RollingRelease)
    \/ Uninstall(RollingRelease)
    \/ \E v \in {RollingRelease, NoVersion} : SetDefault(v)
    \/ \E a \in ArgLists : RunVersion(RollingRelease, a)
    \/ AdvanceClock

SpecClock == InitClock /\ [][NextClock]_vars

\* Installs of every version string while the clock advances.
NextReinstall ==
    \/ \E v \in UserVersions : Install(v)
    \/ AdvanceClock

SpecReinstall == Init /\ [][NextReinstall]_vars

(***************************************************************************)
(* Listing.                                                                *)
(***************************************************************************)
\* The orders in which the elements of a finite set can be listed.
RECURSIVE Orderings(_)
Orderings(S) ==
    IF S = {} THEN {<<>>}
    ELSE UNION { { <<x>> \o rest : rest \in Orderings(S \ {x}) } : x \in S }

\* utils.Values(m): the values of the map, in the order the iteration over a Go
\* map yields them, which is any order
Values(m) == { [i \in 1..Len(ks) |-> m[ks[i]]] : ks \in Orderings(DOMAIN m) }

\* The results ListInstalledVersions may return.
ListInstalledVersions(cfg) == Values(cfg.LocalInstallations)

\* a <= b as version numbers
VersionLeq(a, b) == NewVersion(a) = NewVersion(b) \/ GreaterThan(NewVersion(b), NewVersion(a))

IsAscending(versions) ==
    \A i \in 1..(Len(versions) - 1) : VersionLeq(versions[i], versions[i + 1])

\* x put into an ascending list, after the elements that are not greater
RECURSIVE InsertVersion(_, _)
InsertVersion(sorted, x) ==
    IF sorted = <<>> THEN <<x>>
    ELSE IF VersionLeq(sorted[1], x) THEN <<sorted[1]>> \o InsertVersion(Tail(sorted), x)
    ELSE <<x>> \o sorted

\* utils.SortVersions(list, identity): the list in ascending version order
RECURSIVE SortVersions(_)
SortVersions(versionList) ==
    IF versionList = <<>> THEN <<>>
    ELSE InsertVersion(SortVersions(Tail(versionList)), versionList[1])

\* The results LocalVersionList may return: the versions of the entries
\* ListInstalledVersions returned, sorted.
LocalVersionList(cfg) ==
    { SortVersions([i \in 1..Len(installedVersions) |-> installedVersions[i].Version])
        : installedVersions \in ListInstalledVersions(cfg) }

\* Releases installed in the inventories that are listed.
ListedReleases == {"0.2.0", "0.9.2", "0.10.0", "1.0.0", "1.1.0"}

\* The inventory in which exactly the releases of S are installed.
InventoryOf(S) ==
    [LocalInstallations |->
        [k \in S |-> [Version |-> k, Location |-> FileLocation(k),
                      InstallationDate |-> MarshalText(0)]],
     DefaultVersion |-> NoVersion]

Listing(op, out) ==
    [op |-> op, version |-> NoVersion, args |-> <<>>, err |-> NoError, trace |-> <<>>,
     launched |-> out, latest |-> ClientError, advisory |-> "none",
     found |-> NilInfo, onDisk |-> FALSE]

InitList ==
    /\ \E S \in SUBSET ListedReleases :
          /\ localConfig = InventoryOf(S)
          /\ configFile = MarshalIndent(InventoryOf(S))
          /\ versionDir = { FileLocation(k) : k \in S }
    /\ defaultFile = NoFile
    /\ now = 0
    /\ catalog = ListedReleases
    /\ last = NoCommand("init")
    /\ inv = <<>>

\* The list command's call: the result is kept in last.launched.
CallListInstalledVersions ==
    /\ \E out \in ListInstalledVersions(localConfig) :
          last' = Listing("ListInstalledVersions", out)
    /\ UNCHANGED <<localConfig, configFile, versionDir, defaultFile, now, catalog, inv>>

\* Shell completion's call.
CallLocalVersionList ==
    /\ \E out \in LocalVersionList(localConfig) : last' = Listing("LocalVersionList", out)
    /\ UNCHANGED <<localConfig, configFile, versionDir, defaultFile, now, catalog, inv>>

NextList == CallListInstalledVersions \/ CallLocalVersionList

SpecList == InitList /\ [][NextList]_vars

(***************************************************************************)
(* Lookup in arbitrary inventories: any set of keys, among them both       *)
(* shapes of one version.                                                  *)
(***************************************************************************)
\* Keys the inventories hold, and the strings that are looked up.
LookupKeys == {"0.9.2", "v0.9.2", "vv0.9.2", RollingRelease, "v0.10.0"}
LookupStrings == {"0.9.2", "v0.9.2", RollingRelease, "0.10.0", "1.0.0"}

\* The call, its argument, its results.
Looked(op, version, out, err) ==
    [Listing(op, out) EXCEPT !.version = version, !.err = err]

InitLookup ==
    /\ \E S \in SUBSET LookupKeys :
          /\ localConfig = InventoryOf(S)
          /\ configFile = MarshalIndent(InventoryOf(S))
          /\ versionDir = { FileLocation(k) : k \in S }
    /\ defaultFile = NoFile
    /\ now = 0
    /\ catalog = LookupKeys
    /\ last = NoCommand("init")
    /\ inv = <<>>

CallVersionIsInstalled(version) ==
    /\ last' = Looked("VersionIsInstalled", version,
                      <<VersionIsInstalled(localConfig, version)>>, NoError)
    /\ UNCHANGED <<localConfig, configFile, versionDir, defaultFile, now, catalog, inv>>

CallGetLocalReleaseInfo(version) ==
    /\ LET li == GetLocalReleaseInfo(localConfig, version)
       IN  last' = Looked("GetLocalReleaseInfo", version, <<li>>,
                          IF li = NilInfo THEN "NotFoundLocal" ELSE NoError)
    /\ UNCHANGED <<localConfig, configFile, versionDir, defaultFile, now, catalog, inv>>

NextLookup ==
    \/ \E s \in LookupStrings : CallVersionIsInstalled(s)
    \/ \E s \in LookupStrings : CallGetLocalReleaseInfo(s)

SpecLookup == InitLookup /\ [][NextLookup]_vars

(***************************************************************************)
(* Two concurrent invocations.  Each loads the inventory file, changes its *)
(* in-memory inventory and saves it; os.WriteFile is two system calls, the *)
(* open that truncates the file and the write, and nothing locks the file. *)
(***************************************************************************)
Invocations == {1, 2}

\* Release keys the catalog of this scenario serves.
ConcCatalog == {"v0.9.2", RollingRelease}

\* Inventories the file may hold when the invocations start.
ConcInventories == { InventoryOf(S) : S \in SUBSET ConcCatalog }

InitConc ==
    /\ \E cfg \in ConcInventories :
          /\ localConfig = cfg
          /\ configFile = MarshalIndent(cfg)
          /\ versionDir = { FileLocation(k) : k \in DOMAIN cfg.LocalInstallations }
    /\ defaultFile = NoFile
    /\ now = 0
    /\ catalog = ConcCatalog
    /\ last = NoCommand("init")
    /\ inv = [i \in Invocations |-> [pc |-> "start", cfg |-> EmptyConfig]]

\* The invocation starts: it loads the file, or ends on a file that does not parse.
Load(i) ==
    /\ inv[i].pc = "start"
    /\ inv' = [inv EXCEPT ![i] = IF WellFormed(configFile)
                                 THEN [pc |-> "loaded", cfg |-> Unmarshal(configFile)]
                                 ELSE [pc |-> "aborted", cfg |-> EmptyConfig]]
    /\ last' = [NoCommand("load") EXCEPT !.version = i]
    /\ UNCHANGED <<localConfig, configFile, versionDir, defaultFile, now, catalog>>

\* InstallVersion up to its saveConfig: the binary written, the entry recorded.
ConcInstall(i, release) ==
    /\ inv[i].pc = "loaded"
    /\ inv' = [inv EXCEPT ![i] = [pc |-> "save",
                                  cfg |-> RecordInstallation(inv[i].cfg, release, now)]]
    /\ versionDir' = versionDir \cup {FileLocation(release)}
    /\ last' = [NoCommand("record") EXCEPT !.version = i]
    /\ UNCHANGED <<localConfig, configFile, defaultFile, now, catalog>>

\* UninstallVersion of an entry that is not the default, up to its saveConfig.
ConcUninstall(i, release) ==
    /\ inv[i].pc = "loaded"
    /\ release \in DOMAIN inv[i].cfg.LocalInstallations
    /\ inv' = [inv EXCEPT ![i] = [pc |-> "save",
                                  cfg |-> [inv[i].cfg EXCEPT !.LocalInstallations =
                                                                MapDelete(@, release)]]]
    /\ versionDir' = versionDir \ {FileLocation(release)}
    /\ last' = [NoCommand("delete") EXCEPT !.version = i]
    /\ UNCHANGED <<localConfig, configFile, defaultFile, now, catalog>>

\* saveConfig, first call of os.WriteFile: the file is opened and truncated.
OpenFile(i) ==
    /\ inv[i].pc = "save"
    /\ inv' = [inv EXCEPT ![i].pc = "opened"]
    /\ configFile' = Truncate(configFile)
    /\ last' = [NoCommand("open") EXCEPT !.version = i]
    /\ UNCHANGED <<localConfig, versionDir, defaultFile, now, catalog>>

\* saveConfig, second call of os.WriteFile: the bytes are written at offset 0.
WriteFile(i) ==
    /\ inv[i].pc = "opened"
    /\ inv' = [inv EXCEPT ![i].pc = "done"]
    /\ configFile' = WriteAt0(configFile, MarshalIndent(inv[i].cfg))
    /\ localConfig' = inv[i].cfg
    /\ last' = [NoCommand("write") EXCEPT !.version = i]
    /\ UNCHANGED <<versionDir, defaultFile, now, catalog>>

NextConc ==
    \E i \in Invocations :
        \/ Load(i)
        \/ \E r \in ConcCatalog : ConcInstall(i, r)
        \/ \E r \in ConcCatalog : ConcUninstall(i, r)
        \/ OpenFile(i)
        \/ WriteFile(i)

SpecConc == InitConc /\ [][NextConc]_vars

(***************************************************************************)
(* Vocabulary of the properties.                                           *)
(***************************************************************************)
\* The inventory a new invocation would load.
Persisted == Unmarshal(configFile)

Succeeded(op) == last.op = op /\ last.err = NoError

\* How often a step occurs in a trace, and whether every occurrence of step b
\* comes after an occurrence of step a.
Count(trace, step) == Cardinality({ i \in 1..Len(trace) : trace[i] = step })
Precedes(trace, a, b) ==
    \A j \in 1..Len(trace) : trace[j] = b => \E i \in 1..(j - 1) : trace[i] = a

\* The default of an inventory has an entry, and the artifact points at its location.
DefaultIsBacked(cfg, link) ==
    cfg.DefaultVersion # NoVersion =>
        /\ cfg.DefaultVersion \in DOMAIN cfg.LocalInstallations
        /\ link = cfg.LocalInstallations[cfg.DefaultVersion].Location

(***************************************************************************)
(* C1.  If defaultVersion is set, a matching entry exists in installed and *)
(* the default-pointer artifact exists and points at that entry's          *)
(* location, in every state reached by any sequence of operations,         *)
(* including operations that fail part-way.                                *)
(* Violated: SetDefaultVersion removes the artifact before the steps that  *)
(* can fail, and the recorded default is not touched on those paths.       *)
(***************************************************************************)
C1_DefaultIsBacked ==
    /\ DefaultIsBacked(localConfig, defaultFile)
    /\ WellFormed(configFile) => DefaultIsBacked(Persisted, defaultFile)

(***************************************************************************)
(* C2.  Original statement: after a successful Install(v), both            *)
(* VersionIsInstalled(v) and VersionIsInstalled("v" + v) are true,         *)
(* whatever key shape the catalog returned.                                *)
(***************************************************************************)
C2_BothShapesInstalled ==
    Succeeded("InstallVersion") =>
        /\ VersionIsInstalled(localConfig, last.version)
        /\ VersionIsInstalled(localConfig, Prefixed(last.version))

(***************************************************************************)
(* C2, amended.  After a successful Install(v) the entry is stored under   *)
(* the key k the catalog returned: when k = v, VersionIsInstalled(v) is    *)
(* true; when k = "v" + v, VersionIsInstalled(v) and                       *)
(* VersionIsInstalled("v" + v) are both true.                              *)
(***************************************************************************)
C2_InstalledUnderCatalogKey ==
    Succeeded("InstallVersion") =>
        LET k == GetRelease(catalog, last.version)
        IN  /\ k \in DOMAIN localConfig.LocalInstallations
            /\ k = last.version => VersionIsInstalled(localConfig, last.version)
            /\ k = Prefixed(last.version) =>
                  /\ VersionIsInstalled(localConfig, last.version)
                  /\ VersionIsInstalled(localConfig, Prefixed(last.version))
                  /\ last.version \notin DOMAIN localConfig.LocalInstallations

C2_Witness ==
    /\ Succeeded("InstallVersion")
    /\ GetRelease(catalog, last.version) = Prefixed(last.version)

(***************************************************************************)
(* C3.  No partial inventory write: when Install, Uninstall, SetDefault or *)
(* Run ends in an error, the persisted inventory is what it was before the *)
(* operation started.                                                      *)
(* Violated: the nested SetDefaultVersion(nil) and InstallVersion save the *)
(* inventory before the outer operation's later steps, and a failing       *)
(* os.WriteFile leaves the truncated file.                                 *)
(***************************************************************************)
C3_ErrorLeavesFileUnchanged ==
    [][ (last'.op \in {"InstallVersion", "UninstallVersion", "SetDefaultVersion", "Run"}
            /\ last'.err # NoError)
        => configFile' = configFile ]_vars

(***************************************************************************)
(* C4.  Uninstall(v) when neither v nor "v" + v is a key fails with the    *)
(* not-installed error and leaves the in-memory inventory, the persisted   *)
(* inventory, the installed binaries and the default-pointer artifact      *)
(* unchanged.                                                              *)
(***************************************************************************)
C4_UninstallAbsentChangesNothing ==
    [][ (/\ last'.op = "UninstallVersion"
         /\ last'.version \notin DOMAIN Persisted.LocalInstallations
         /\ Prefixed(last'.version) \notin DOMAIN Persisted.LocalInstallations)
        => /\ last'.err = "NotInstalled"
           /\ localConfig' = Persisted
           /\ configFile' = configFile
           /\ versionDir' = versionDir
           /\ defaultFile' = defaultFile ]_vars

C4_Witness ==
    /\ last.op = "UninstallVersion"
    /\ last.err = "NotInstalled"
    /\ DOMAIN localConfig.LocalInstallations # {}
    /\ defaultFile # NoFile

(***************************************************************************)
(* C5.  Uninstall of the version that is the current default clears        *)
(* defaultVersion and removes the default-pointer artifact before the      *)
(* binary file is removed; after a successful Uninstall, GetDefault()      *)
(* returns none, the entry is gone from installed, and no default-pointer  *)
(* artifact remains.                                                       *)
(***************************************************************************)
C5_UninstallDefaultClearsFirst ==
    [][ (/\ last'.op = "UninstallVersion"
         /\ VersionIsInstalled(Persisted, last'.version)
         /\ Persisted.DefaultVersion = GetLocalReleaseInfo(Persisted, last'.version).Version)
        => LET key == GetLocalReleaseInfo(Persisted, last'.version).Version
           IN  /\ Precedes(last'.trace, "clearDefault", "Remove(binary)")
               /\ defaultFile # NoFile =>
                     Precedes(last'.trace, "Remove(DefaultDuckdbFile)", "Remove(binary)")
               /\ last'.err = NoError =>
                     /\ Count(last'.trace, "Remove(binary)") = 1
                     /\ GetDefaultVersion(localConfig') = NilInfo
                     /\ GetDefaultVersion(Unmarshal(configFile')) = NilInfo
                     /\ key \notin DOMAIN localConfig'.LocalInstallations
                     /\ key \notin DOMAIN Unmarshal(configFile').LocalInstallations
                     /\ FileLocation(key) \notin versionDir'
                     /\ defaultFile' = NoFile ]_vars

\* The default, with its artifact in place, was uninstalled under its unprefixed name.
C5_Witness ==
    /\ Succeeded("UninstallVersion")
    /\ Count(last.trace, "Remove(DefaultDuckdbFile)") = 1
    /\ Count(last.trace, "clearDefault") = 1
    /\ Prefixed(last.version) \in catalog

(***************************************************************************)
(* C6.  SetDefault(v) when v is not installed triggers an install of v;    *)
(* after it succeeds, GetDefault() returns an installed entry matching v,  *)
(* defaultVersion is the resolved key of that entry, and the default-      *)
(* pointer artifact resolves to that entry's binary location, for every    *)
(* user-supplied v and every key shape the catalog returns.                *)
(***************************************************************************)
C6_SetDefaultInstallsAndPoints ==
    [][ (/\ last'.op = "SetDefaultVersion"
         /\ last'.version # NoVersion
         /\ ~VersionIsInstalled(Persisted, last'.version))
        => LET entry == GetDefaultVersion(localConfig')
               trace == last'.trace
           IN  /\ (last'.err = NoError \/ trace[Len(trace)] # "Remove(DefaultDuckdbFile)")
                     => Count(trace, "InstallVersion") = 1
               /\ last'.err = NoError =>
                     /\ Precedes(trace, "InstallVersion", "symlink")
                     /\ entry.Version \in DOMAIN localConfig'.LocalInstallations
                     /\ entry = localConfig'.LocalInstallations[entry.Version]
                     /\ entry.Version \in {last'.version, Prefixed(last'.version)}
                     /\ entry = GetLocalReleaseInfo(localConfig', last'.version)
                     /\ localConfig'.DefaultVersion = entry.Version
                     /\ defaultFile' = entry.Location
                     /\ entry.Location \in versionDir' ]_vars

\* The default was set under the unprefixed name of a release the catalog
\* serves under its prefixed key, and that release had to be installed.
C6_Witness ==
    /\ Succeeded("SetDefaultVersion")
    /\ Count(last.trace, "InstallVersion") = 1
    /\ localConfig.DefaultVersion = Prefixed(last.version)

(***************************************************************************)
(* C7.  Rolling-build freshness: with an installed "nightly" entry         *)
(* installed at T, RunVersion later than T + 24h performs exactly one      *)
(* re-install, before the launcher is invoked; RunVersion within the       *)
(* window performs no install; and a Run that had to auto-install the      *)
(* missing rolling version does not install it a second time.              *)
(***************************************************************************)
C7_RollingFreshness ==
    [][ (last'.op = "Run" /\ last'.version = RollingRelease)
        => LET installs == Count(last'.trace, "InstallVersion")
               age == now - ParseTime(Persisted.LocalInstallations[RollingRelease]
                                         .InstallationDate).t
           IN  IF RollingRelease \in DOMAIN Persisted.LocalInstallations
               THEN /\ age > FreshnessWindow =>
                          /\ installs = 1
                          /\ Precedes(last'.trace, "InstallVersion", "exec")
                    /\ age <= FreshnessWindow => installs = 0
               ELSE /\ installs = 1
                    /\ Precedes(last'.trace, "InstallVersion", "exec") ]_vars

\* A stale rolling build was re-installed and then launched.
C7_Witness ==
    /\ Succeeded("Run")
    /\ last.version = RollingRelease
    /\ Count(last.trace, "InstallVersion") = 1
    /\ now > FreshnessWindow
    /\ ParseTime(localConfig.LocalInstallations[RollingRelease].InstallationDate).t = now
    /\ Len(last.launched) > 1

(***************************************************************************)
(* C8.  Two concurrent invocations race with last-writer-wins semantics:   *)
(* in every interleaving, once both have finished, the persisted inventory *)
(* is exactly the complete in-memory inventory of the invocation that      *)
(* wrote last, never a mixture of the two.                                 *)
(* Violated: both truncate, the longer inventory is written first and the  *)
(* shorter one over its beginning.                                         *)
(***************************************************************************)
C8_LastWriterWins ==
    (/\ \A i \in Invocations : inv[i].pc \in {"done", "aborted"}
     /\ last.op = "write")
    => /\ WellFormed(configFile)
       /\ configFile = MarshalIndent(inv[last.version].cfg)

(***************************************************************************)
(* C9.  ListInstalled() returns all InstalledVersion entries in ascending  *)
(* numeric (component-wise) version order, and the order is the same for   *)
(* every insertion order and every map iteration order of the same set of  *)
(* entries.                                                                *)
(* Violated: ListInstalledVersions returns utils.Values of the map and     *)
(* does not sort; only LocalVersionList sorts.                             *)
(***************************************************************************)
C9_ListInstalledAscending ==
    last.op = "ListInstalledVersions" =>
        /\ { last.launched[i] : i \in 1..Len(last.launched) }
              = { localConfig.LocalInstallations[k] : k \in DOMAIN localConfig.LocalInstallations }
        /\ Len(last.launched) = Cardinality(DOMAIN localConfig.LocalInstallations)
        /\ IsAscending([i \in 1..Len(last.launched) |-> last.launched[i].Version])

(***************************************************************************)
(* C10.  The self-update advisory never fails or aborts the invoking       *)
(* command: on any error of the check (timeout, network error, or a        *)
(* version string that does not parse) it returns silently, and it prints  *)
(* the advisory only when both versions parse and the remote one is        *)
(* strictly greater.                                                       *)
(* Violated: version.Must panics on a version string that does not parse.  *)
(***************************************************************************)
C10_AdvisoryNeverFails ==
    Succeeded("InstallVersion") =>
        /\ last.advisory \in {"silent", "advisory"}
        /\ last.advisory = "advisory" <=>
              /\ NewVersion(last.latest) # ParseError
              /\ NewVersion(ConfigVersion) # ParseError
              /\ GreaterThan(NewVersion(last.latest), NewVersion(ConfigVersion))

(***************************************************************************)
(* C11.  After every mutating operation (Install, Uninstall, SetDefault(v), *)
(* SetDefault(none)) that returns success, the persisted inventory equals  *)
(* the in-memory inventory in full: same installed mapping, same           *)
(* defaultVersion.                                                         *)
(***************************************************************************)
C11_SuccessPersistsInMemory ==
    (\/ Succeeded("InstallVersion")
     \/ Succeeded("UninstallVersion")
     \/ Succeeded("SetDefaultVersion"))
    => /\ WellFormed(configFile)
       /\ Persisted.LocalInstallations = localConfig.LocalInstallations
       /\ Persisted.DefaultVersion = localConfig.DefaultVersion
       /\ Persisted = localConfig

\* A default was set while another version is installed, and saved.
C11_Witness ==
    /\ Succeeded("SetDefaultVersion")
    /\ localConfig.DefaultVersion # NoVersion
    /\ Cardinality(DOMAIN localConfig.LocalInstallations) = 2
    /\ Persisted = localConfig

\* The steps of an InstallVersion that ran to its end, from the step at i on.
InstallSteps ==
    <<"InstallVersion", "GetRelease", "GetDownloadUrlFrom", "GetResponseBodyFrom",
      "ExtractDuckdbFile", "WriteFile", "record", "saveConfig">>

\* The install that starts at position i of the trace made all its steps, and the
\* handler went on after it.
InstallWentThrough(trace, i) ==
    /\ i + Len(InstallSteps) <= Len(trace)
    /\ SubSeq(trace, i, i + Len(InstallSteps) - 1) = InstallSteps

(***************************************************************************)
(* C12.  RunVersion(v, args) invokes the Process Launcher only after v     *)
(* resolves to an installed entry (auto-installing it when missing), and   *)
(* the launched argument list is that entry's binary location followed by  *)
(* the caller's args in their original order; if the auto-install or the   *)
(* freshness re-install fails, the launcher is never invoked and the error *)
(* is returned.                                                            *)
(***************************************************************************)
C12_LaunchAfterResolution ==
    [][ last'.op = "Run"
        => LET trace == last'.trace
               launches == Count(trace, "exec")
               entry == GetLocalReleaseInfo(localConfig', last'.version)
           IN  /\ launches <= 1
               /\ ~VersionIsInstalled(Persisted, last'.version) =>
                     Count(trace, "InstallVersion") = 1
               /\ launches = 1 =>
                     /\ trace[Len(trace)] = "exec"
                     /\ VersionIsInstalled(localConfig', last'.version)
                     /\ \A i \in 1..Len(trace) :
                           trace[i] = "InstallVersion" => InstallWentThrough(trace, i)
               /\ last'.err = NoError =>
                     /\ launches = 1
                     /\ last'.launched = <<entry.Location>> \o last'.args
                     /\ entry.Location \in versionDir'
               /\ (\E i \in 1..Len(trace) :
                        trace[i] = "InstallVersion" /\ ~InstallWentThrough(trace, i))
                     => /\ launches = 0
                        /\ last'.err # NoError
                        /\ last'.launched = <<>> ]_vars

\* A stale rolling build was re-installed and launched with the caller's arguments.
C12_Witness ==
    /\ Succeeded("Run")
    /\ Count(last.trace, "InstallVersion") = 1
    /\ now > FreshnessWindow
    /\ Len(last.args) = 2
    /\ last.launched = <<FileLocation(RollingRelease)>> \o last.args

(***************************************************************************)
(* C13.  Install(v) when v already resolves to an installed entry (by      *)
(* exact or prefixed lookup) overwrites that entry: the number of entries  *)
(* in installed is unchanged, the entry carries the new installation       *)
(* timestamp, and no second entry for the same version is created under a  *)
(* different key shape.                                                    *)
(***************************************************************************)
C13_ReinstallOverwrites ==
    [][ (/\ last'.op = "InstallVersion"
         /\ last'.err = NoError
         /\ VersionIsInstalled(Persisted, last'.version))
        => LET key == GetLocalReleaseInfo(Persisted, last'.version).Version
               installed == localConfig'.LocalInstallations
           IN  /\ Cardinality(DOMAIN installed)
                     = Cardinality(DOMAIN Persisted.LocalInstallations)
               /\ DOMAIN installed = DOMAIN Persisted.LocalInstallations
               /\ installed[key].Version = key
               /\ installed[key].InstallationDate = MarshalText(now)
               /\ GetLocalReleaseInfo(localConfig', last'.version) = installed[key]
               /\ \A r \in UserVersions : ~(r \in DOMAIN installed /\ Prefixed(r) \in DOMAIN installed)
               /\ Unmarshal(configFile').LocalInstallations = installed ]_vars

\* A release stored under its prefixed key was installed again, later, under its
\* unprefixed name.
C13_Witness ==
    /\ Succeeded("InstallVersion")
    /\ last.found # NilInfo
    /\ last.found.Version = Prefixed(last.version)
    /\ ParseTime(last.found.InstallationDate).t < now
    /\ localConfig.LocalInstallations[last.found.Version].InstallationDate = MarshalText(now)
    /\ Cardinality(DOMAIN localConfig.LocalInstallations) = 2

(***************************************************************************)
(* C14.  SetDefault(none) succeeds whether or not a default-pointer        *)
(* artifact exists, leaves defaultVersion cleared and no artifact on disk, *)
(* and is idempotent: applying it twice yields the same in-memory          *)
(* inventory, persisted inventory and disk state as applying it once.      *)
(* Success is that of the handler's own logic: the removal of an existing  *)
(* artifact and the write of the inventory file may fail in the file       *)
(* system, and nothing else makes the operation fail.                      *)
(***************************************************************************)
C14_ClearDefaultIdempotent ==
    [][ (last'.op = "SetDefaultVersion" /\ last'.version = NoVersion)
        => LET trace == last'.trace
           IN  /\ defaultFile = NoFile =>
                     /\ Count(trace, "Remove(DefaultDuckdbFile)") = 0
                     /\ last'.err # NoError => trace[Len(trace)] = "saveConfig"
               /\ defaultFile # NoFile =>
                     /\ Count(trace, "Remove(DefaultDuckdbFile)") = 1
                     /\ last'.err # NoError =>
                           trace[Len(trace)] \in {"Remove(DefaultDuckdbFile)", "saveConfig"}
               /\ last'.err \in {NoError, "IOError"}
               /\ last'.err = NoError =>
                     /\ localConfig'.DefaultVersion = NoVersion
                     /\ Unmarshal(configFile').DefaultVersion = NoVersion
                     /\ GetDefaultVersion(localConfig') = NilInfo
                     /\ defaultFile' = NoFile
                     /\ localConfig'.LocalInstallations = Persisted.LocalInstallations
                     /\ versionDir' = versionDir
               /\ (Succeeded("SetDefaultVersion") /\ last.version = NoVersion
                        /\ last'.err = NoError)
                     => /\ localConfig' = localConfig
                        /\ configFile' = configFile
                        /\ versionDir' = versionDir
                        /\ defaultFile' = defaultFile ]_vars

\* The default was cleared when there was no artifact, in an inventory with entries.
C14_Witness ==
    /\ Succeeded("SetDefaultVersion")
    /\ last.version = NoVersion
    /\ Count(last.trace, "Remove(DefaultDuckdbFile)") = 0
    /\ DOMAIN localConfig.LocalInstallations # {}
    /\ localConfig.DefaultVersion = NoVersion
    /\ defaultFile = NoFile

(***************************************************************************)
(* C15.  Version resolution is a two-step lookup: for every inventory and  *)
(* every string s, GetLocalReleaseInfo(s) returns the entry stored under   *)
(* key s when present, otherwise the entry stored under the prefixed key   *)
(* "v" + s when present, otherwise a not-found error; and                  *)
(* VersionIsInstalled(s) is true exactly when GetLocalReleaseInfo(s)       *)
(* succeeds.                                                               *)
(***************************************************************************)
C15_TwoStepLookup ==
    LET s == last.version
        installed == localConfig.LocalInstallations
    IN  /\ last.op = "GetLocalReleaseInfo" =>
              IF s \in DOMAIN installed
              THEN last.launched = <<installed[s]>> /\ last.err = NoError
              ELSE IF Prefixed(s) \in DOMAIN installed
                   THEN last.launched = <<installed[Prefixed(s)]>> /\ last.err = NoError
                   ELSE last.launched = <<NilInfo>> /\ last.err = "NotFoundLocal"
        /\ last.op = "VersionIsInstalled" =>
              /\ last.launched[1] <=> (s \in DOMAIN installed \/ Prefixed(s) \in DOMAIN installed)
              /\ last.launched[1] <=> (GetLocalReleaseInfo(localConfig, s) # NilInfo)

\* A string was looked up in an inventory that holds it under both key shapes, and
\* the entry under the exact key was returned.
C15_Witness ==
    /\ last.op = "GetLocalReleaseInfo"
    /\ last.version \in DOMAIN localConfig.LocalInstallations
    /\ Prefixed(last.version) \in DOMAIN localConfig.LocalInstallations
    /\ last.launched[1].Version = last.version

(***************************************************************************)
(* C16.  Install(v) that fails at release lookup, platform URL selection,  *)
(* download or extraction fails before any effect: no binary file is       *)
(* written, the in-memory installed mapping and defaultVersion are         *)
(* unchanged, and the inventory is not persisted; the steps are attempted  *)
(* in the order lookup, URL, download, extract, write binary, record       *)
(* entry, persist, and the first failure is the one returned.              *)
(***************************************************************************)
C16_EarlyFailureNoEffect ==
    [][ last'.op = "InstallVersion"
        => LET trace == last'.trace
               failedAt == trace[Len(trace)]
           IN  /\ Len(trace) \in 2..Len(InstallSteps)
               /\ trace = SubSeq(InstallSteps, 1, Len(trace))
               /\ last'.err = NoError =>
                     trace = InstallSteps /\ configFile' = MarshalIndent(localConfig')
               /\ last'.err = "NotFoundRemote" <=> failedAt = "GetRelease"
               /\ last'.err = "UnsupportedPlatform" <=> failedAt = "GetDownloadUrlFrom"
               /\ last'.err = "DownloadError" <=> failedAt = "GetResponseBodyFrom"
               /\ last'.err = "ExtractError" <=> failedAt = "ExtractDuckdbFile"
               /\ last'.err = "IOError" <=>
                     (last'.err # NoError /\ failedAt \in {"WriteFile", "saveConfig"})
               /\ last'.err \in {"NotFoundRemote", "UnsupportedPlatform",
                                  "DownloadError", "ExtractError"}
                     => /\ versionDir' = versionDir
                        /\ localConfig'.LocalInstallations = Persisted.LocalInstallations
                        /\ localConfig'.DefaultVersion = Persisted.DefaultVersion
                        /\ configFile' = configFile
                        /\ Count(trace, "saveConfig") = 0
                        /\ defaultFile' = defaultFile ]_vars

\* The extraction failed in an install over an inventory with an entry and a default.
C16_Witness ==
    /\ last.op = "InstallVersion"
    /\ last.err = "ExtractError"
    /\ last.trace = SubSeq(InstallSteps, 1, 5)
    /\ last.found = NilInfo
    /\ localConfig.DefaultVersion # NoVersion
    /\ ~VersionIsInstalled(localConfig, last.version)
    /\ GetRelease(catalog, last.version) # NotFound

(***************************************************************************)
(* C17.  Uninstall(v) of an installed version whose binary file is already *)
(* absent on disk succeeds, removes the map entry and persists the         *)
(* inventory; only a file-removal error other than file-not-found makes    *)
(* Uninstall fail, and in that case the map entry is kept.                 *)
(* The removal of the binary is the step the statement is about: with the  *)
(* binary absent that step does not fail, and a failure of that step       *)
(* happens only on a binary that exists and keeps the entry, in memory and *)
(* in the file.                                                            *)
(***************************************************************************)
C17_AbsentBinaryTolerated ==
    [][ (last'.op = "UninstallVersion" /\ VersionIsInstalled(Persisted, last'.version))
        => LET entry == GetLocalReleaseInfo(Persisted, last'.version)
               trace == last'.trace
               failedAt == trace[Len(trace)]
           IN  /\ entry.Location \notin versionDir =>
                     /\ last'.err # NoError => failedAt # "Remove(binary)"
                     /\ (last'.err # NoError /\ Persisted.DefaultVersion # entry.Version)
                           => failedAt = "saveConfig" /\ Count(trace, "delete") = 1
               /\ last'.err = NoError =>
                     /\ entry.Version \notin DOMAIN localConfig'.LocalInstallations
                     /\ entry.Version \notin DOMAIN Unmarshal(configFile').LocalInstallations
                     /\ Unmarshal(configFile') = localConfig'
                     /\ entry.Location \notin versionDir'
               /\ (last'.err # NoError /\ failedAt = "Remove(binary)") =>
                     /\ last'.err = "IOError"
                     /\ entry.Location \in versionDir
                     /\ entry.Location \in versionDir'
                     /\ Count(trace, "delete") = 0
                     /\ entry.Version \in DOMAIN localConfig'.LocalInstallations
                     /\ localConfig'.LocalInstallations = Persisted.LocalInstallations
                     /\ WellFormed(configFile') =>
                           Unmarshal(configFile').LocalInstallations
                               = Persisted.LocalInstallations ]_vars

\* An entry whose binary was not on disk was uninstalled.
C17_Witness ==
    /\ Succeeded("UninstallVersion")
    /\ last.found # NilInfo
    /\ ~last.onDisk
    /\ Count(last.trace, "delete") = 1
    /\ last.found.Version \notin DOMAIN localConfig.LocalInstallations
    /\ last.found.Version \notin DOMAIN Persisted.LocalInstallations

\* Every key k of the inventory maps to an entry whose version is k and whose
\* location is the version directory plus "<binary-name>-<k>".
KeysNameEntries(cfg) ==
    \A k \in DOMAIN cfg.LocalInstallations :
        /\ cfg.LocalInstallations[k].Version = k
        /\ cfg.LocalInstallations[k].Location = VersionDir \o "/" \o DuckDBName \o "-" \o k

\* Distinct keys of the inventory have distinct binary locations.
LocationsDistinct(cfg) ==
    \A j, k \in DOMAIN cfg.LocalInstallations :
        j # k => cfg.LocalInstallations[j].Location # cfg.LocalInstallations[k].Location

(***************************************************************************)
(* C18.  Key invariant of the inventory: after any sequence of manager     *)
(* operations starting from an inventory that satisfies it, every key k of *)
(* installed maps to an entry whose version equals k and whose location is *)
(* the managed version directory plus "<binary-name>-<k>", so distinct     *)
(* keys never share a binary location.                                     *)
(***************************************************************************)
C18_KeysNameEntries ==
    /\ KeysNameEntries(localConfig)
    /\ LocationsDistinct(localConfig)
    /\ WellFormed(configFile) =>
          KeysNameEntries(Persisted) /\ LocationsDistinct(Persisted)

\* Two versions are installed, one of them installed by setting it as the default.
C18_Witness ==
    /\ Cardinality(DOMAIN localConfig.LocalInstallations) = 2
    /\ Succeeded("SetDefaultVersion")
    /\ Count(last.trace, "record") = 1
    /\ Persisted = localConfig

\* The inventories a and b have the same entries under every key but k.
SameEntriesBut(a, b, k) ==
    /\ DOMAIN a.LocalInstallations \ {k} = DOMAIN b.LocalInstallations \ {k}
    /\ \A j \in DOMAIN a.LocalInstallations \ {k} :
          a.LocalInstallations[j] = b.LocalInstallations[j]

(***************************************************************************)
(* C19.  Install(v) changes at most the one installed entry keyed by the   *)
(* release's version: every other entry of installed, the defaultVersion   *)
(* and the default-pointer artifact path are left unchanged, whether the   *)
(* install succeeds or fails.                                              *)
(***************************************************************************)
C19_InstallFrame ==
    [][ last'.op = "InstallVersion"
        => LET key == GetRelease(catalog, last'.version)
           IN  /\ SameEntriesBut(localConfig', Persisted, key)
               /\ localConfig'.DefaultVersion = Persisted.DefaultVersion
               /\ defaultFile' = defaultFile
               /\ versionDir' \ {FileLocation(key)} = versionDir \ {FileLocation(key)}
               /\ WellFormed(configFile') =>
                     /\ SameEntriesBut(Unmarshal(configFile'), Persisted, key)
                     /\ Unmarshal(configFile').DefaultVersion = Persisted.DefaultVersion
               /\ key = NotFound => localConfig' = Persisted /\ configFile' = configFile ]_vars

\* A version was installed next to another one, which is the default with its
\* artifact in place.
C19_Witness ==
    /\ Succeeded("InstallVersion")
    /\ last.found = NilInfo
    /\ Cardinality(DOMAIN localConfig.LocalInstallations) = 2
    /\ localConfig.DefaultVersion \in DOMAIN localConfig.LocalInstallations
    /\ localConfig.DefaultVersion # GetRelease(catalog, last.version)
    /\ defaultFile = FileLocation(localConfig.DefaultVersion)

(***************************************************************************)
(* C20.  Uninstall(v) of an installed version that is not the current      *)
(* default leaves defaultVersion, the default-pointer artifact and every   *)
(* other installed entry and binary unchanged; it removes only the         *)
(* resolved entry and its binary file.                                     *)
(***************************************************************************)
C20_UninstallFrame ==
    [][ (/\ last'.op = "UninstallVersion"
         /\ VersionIsInstalled(Persisted, last'.version)
         /\ Persisted.DefaultVersion # GetLocalReleaseInfo(Persisted, last'.version).Version)
        => LET entry == GetLocalReleaseInfo(Persisted, last'.version)
           IN  /\ Count(last'.trace, "SetDefaultVersion") = 0
               /\ localConfig'.DefaultVersion = Persisted.DefaultVersion
               /\ defaultFile' = defaultFile
               /\ SameEntriesBut(localConfig', Persisted, entry.Version)
               /\ versionDir' \ {entry.Location} = versionDir \ {entry.Location}
               /\ WellFormed(configFile') =>
                     /\ SameEntriesBut(Unmarshal(configFile'), Persisted, entry.Version)
                     /\ Unmarshal(configFile').DefaultVersion = Persisted.DefaultVersion
               /\ last'.err = NoError =>
                     /\ entry.Version \notin DOMAIN localConfig'.LocalInstallations
                     /\ entry.Version \notin DOMAIN Unmarshal(configFile').LocalInstallations
                     /\ entry.Location \notin versionDir' ]_vars

\* A version was uninstalled while another one is the default, with its artifact
\* and its binary in place.
C20_Witness ==
    /\ Succeeded("UninstallVersion")
    /\ last.found # NilInfo
    /\ last.onDisk
    /\ last.found.Version \notin DOMAIN localConfig.LocalInstallations
    /\ localConfig.DefaultVersion \in DOMAIN localConfig.LocalInstallations
    /\ localConfig.DefaultVersion # last.found.Version
    /\ defaultFile = localConfig.LocalInstallations[localConfig.DefaultVersion].Location
    /\ defaultFile \in versionDir

====
